---------------------------- MODULE Spec2Model ----------------------------
(***************************************************************************)
(* State-machine model of bot_indicadores_GL.py: the retry decorator, the  *)
(* Telegram notifier, the heartbeat, the hybrid 15m + 4h analyser          *)
(* (analizar_mercado) and the alert loop of main.                          *)
(*                                                                         *)
(* Prices and indicator values are integers; the float comparisons of the  *)
(* source (0.99 x max, 1.01 x min, 1.5 x vol_sma20) are cross-multiplied.  *)
(* The exchange, the ta library and the HTTP transport are the             *)
(* environment: what they answer is drawn from the sets defined below.     *)
(***************************************************************************)
EXTENDS Integers, Sequences, FiniteSets

(***************************************************************************)
(* Program constants                                                       *)
(***************************************************************************)
FUERZA_MIN_LONG == 7

FUERZA_MIN_SHORT == 7

FUERZA_MINIMA_ALERTA == 7

\* retry(excs, tries=3, delay=5, backoff=2)
tries == 3

delay == 5

backoff == 2

\* len(ohlcv_15m) < 200 or len(ohlcv_4h) < 210
MIN_VELAS_15M == 200

MIN_VELAS_4H == 210

\* len(df_15m) < 50
MIN_FILAS_15M == 50

\* df_15m["high"].iloc[-96:]
VENTANA_BREAKOUT == 96

\* last["adx"] > 23
UMBRAL_ADX == 23

\* last["rsi"] > 50
UMBRAL_RSI == 50

\* now.minute < 15
MINUTOS_LATIDO == 15

horas_de_latido == {8, 20}

pesos == <<2, 2, 2, 1, 2, 1>>

\* Each symbol is the pair its "BASE/QUOTE" string splits into at '/'.
TODOS_LOS_PARES ==
    << <<"BTC", "USDT">>, <<"ETH", "USDT">>, <<"SOL", "USDT">>, <<"ADA", "USDT">>,
       <<"DOGE", "USDT">>, <<"TRX", "USDT">>, <<"XRP", "USDT">>, <<"SUI", "USDT">> >>

(***************************************************************************)
(* Bounds of the model                                                     *)
(***************************************************************************)
\* How many symbols of the list one modelled cycle walks through.
NumPares == 2

\* How many calendar days the heartbeat clock spans.
NumDias == 2

PARES_A_ANALIZAR == SubSeq(TODOS_LOS_PARES, 1, NumPares)

(***************************************************************************)
(* Small helpers                                                           *)
(***************************************************************************)
\* max() and min() of the values f takes on the positions a..b (a =< b)
RECURSIVE MaxEntre(_, _, _)
MaxEntre(f, a, b) ==
    IF a >= b THEN f[b]
    ELSE LET medio == (a + b) \div 2
             x == MaxEntre(f, a, medio)
             y == MaxEntre(f, medio + 1, b)
         IN  IF x >= y THEN x ELSE y

RECURSIVE MinEntre(_, _, _)
MinEntre(f, a, b) ==
    IF a >= b THEN f[b]
    ELSE LET medio == (a + b) \div 2
             x == MinEntre(f, a, medio)
             y == MinEntre(f, medio + 1, b)
         IN  IF x =< y THEN x ELSE y

RECURSIVE SumaSeq(_)
SumaSeq(s) == IF s = <<>> THEN 0 ELSE Head(s) + SumaSeq(Tail(s))

\* symbol.split('/')[0]
ParDe(symbol) == symbol[1]

ExcsMercado == {"NetworkError", "ExchangeError"}

ExcsTelegram == {"RequestException"}

ResultadoNulo == [score_long |-> 0, score_short |-> 0, tipo |-> "NONE", fuerza |-> 0]

(***************************************************************************)
(* The primary (15m) frame after dropna: what fetch_ohlcv, the ta          *)
(* indicators and dropna leave.  A frame is described by its last four     *)
(* rows, the row just outside the trailing window and the row count; all   *)
(* other rows are flat.                                                    *)
(***************************************************************************)
FilaBase ==
    [ema20 |-> 1000, ema50 |-> 1000, adx |-> 20, macd_hist |-> 0, rsi |-> 50,
     vol_sma20 |-> 100, close |-> 1000, high |-> 1000, low |-> 1000, volume |-> 100]

\* The closed candle: its high/low enclose its close.
FilaLast(e) ==
    [FilaBase EXCEPT !.ema20 = e.ema20, !.close = e.close, !.adx = e.adx,
                     !.macd_hist = e.macd[1], !.rsi = e.rsi[1], !.volume = e.volume,
                     !.high = IF e.close > FilaBase.high THEN e.close ELSE FilaBase.high,
                     !.low = IF e.close < FilaBase.low THEN e.close ELSE FilaBase.low]

FilaPrev1(e) == [FilaBase EXCEPT !.macd_hist = e.macd[2], !.rsi = e.rsi[2]]

FilaPrev2(e) == [FilaBase EXCEPT !.macd_hist = e.macd[3], !.rsi = e.rsi[3]]

\* The final row: the candle still forming.
FilaFinal(e) == [FilaBase EXCEPT !.high = e.final[1], !.low = e.final[2]]

\* The row 96 places before the final one (present when the frame is long enough).
FilaVieja(e) == [FilaBase EXCEPT !.high = e.vieja[1], !.low = e.vieja[2]]

df_15m(e) ==
    [k \in 1..e.filas |->
        IF k = e.filas THEN FilaFinal(e)
        ELSE IF k = e.filas - 1 THEN FilaLast(e)
        ELSE IF k = e.filas - 2 THEN FilaPrev1(e)
        ELSE IF k = e.filas - 3 THEN FilaPrev2(e)
        ELSE IF k = e.filas - VENTANA_BREAKOUT THEN FilaVieja(e)
        ELSE FilaBase]

\* df.iloc[-n:]: the first row position it selects (the last one is Len(df)).
IlocDesde(df, n) == IF Len(df) > n THEN Len(df) - n + 1 ELSE 1

(***************************************************************************)
(* analizar_mercado, step 4: trend of the 4h frame                         *)
(***************************************************************************)
\* Variant: reads the first row of the frame instead of the most recent one.
TendenciaPrimeraFila(df_4h) ==
    IF df_4h = <<>> THEN "NEUTRO"
    ELSE LET last_4h == df_4h[1]
         IN  IF last_4h.ema20 > last_4h.ema200 THEN "ALCISTA"
             ELSE IF last_4h.ema20 < last_4h.ema200 THEN "BAJISTA"
             ELSE "NEUTRO"

Tendencia(df_4h) ==
    IF df_4h = <<>> THEN "NEUTRO"
    ELSE LET last_4h == df_4h[Len(df_4h)]
         IN  IF last_4h.ema20 > last_4h.ema200 THEN "ALCISTA"
             ELSE IF last_4h.ema20 < last_4h.ema200 THEN "BAJISTA"
             ELSE "NEUTRO"

(***************************************************************************)
(* analizar_mercado, steps 5 and 6: the six conditions of each direction,  *)
(* in the order the dicts are built                                        *)
(***************************************************************************)
BreakoutLong(df, last) ==
    LET high == [k \in 1..Len(df) |-> df[k].high]
    IN  100 * last.close >= 99 * MaxEntre(high, IlocDesde(df, VENTANA_BREAKOUT), Len(df))

BreakoutShort(df, last) ==
    LET low == [k \in 1..Len(df) |-> df[k].low]
    IN  100 * last.close =< 101 * MinEntre(low, IlocDesde(df, VENTANA_BREAKOUT), Len(df))

CondLong(df) ==
    LET last  == df[Len(df) - 1]
        prev1 == df[Len(df) - 2]
        prev2 == df[Len(df) - 3]
    IN  << last.ema20 > last.ema50 /\ last.close > last.ema20,
           last.adx > UMBRAL_ADX,
           last.macd_hist > 0 /\ (prev1.macd_hist =< 0 \/ prev2.macd_hist =< 0),
           last.rsi > UMBRAL_RSI /\ (prev1.rsi =< UMBRAL_RSI \/ prev2.rsi =< UMBRAL_RSI),
           2 * last.volume >= 3 * last.vol_sma20,
           BreakoutLong(df, last) >>

CondShort(df) ==
    LET last  == df[Len(df) - 1]
        prev1 == df[Len(df) - 2]
        prev2 == df[Len(df) - 3]
    IN  << last.ema20 < last.ema50 /\ last.close < last.ema20,
           last.adx > UMBRAL_ADX,
           last.macd_hist < 0 /\ (prev1.macd_hist >= 0 \/ prev2.macd_hist >= 0),
           last.rsi < UMBRAL_RSI /\ (prev1.rsi >= UMBRAL_RSI \/ prev2.rsi >= UMBRAL_RSI),
           2 * last.volume >= 3 * last.vol_sma20,
           BreakoutShort(df, last) >>

(***************************************************************************)
(* analizar_mercado, step 7: sum(p for c, p in zip(cond.values(), pesos)   *)
(* if c)                                                                   *)
(***************************************************************************)
\* Variant: counts the true conditions and forgets their weights.
PuntuacionSinPesos(cond) == SumaSeq([k \in 1..Len(cond) |-> IF cond[k] THEN 1 ELSE 0])

Puntuacion(cond) ==
    SumaSeq([k \in 1..(IF Len(cond) < Len(pesos) THEN Len(cond) ELSE Len(pesos)) |->
                IF cond[k] THEN pesos[k] ELSE 0])

(***************************************************************************)
(* analizar_mercado, step 8: the final signal                              *)
(***************************************************************************)
\* Variant: compares the two scores with >= instead of >.
SenalConEmpate(sl, ss, tendencia) ==
    IF sl >= FUERZA_MIN_LONG /\ sl >= ss /\ tendencia \in {"ALCISTA", "NEUTRO"}
    THEN [tipo |-> "LONG", fuerza |-> sl]
    ELSE IF ss >= FUERZA_MIN_SHORT /\ ss >= sl /\ tendencia \in {"BAJISTA", "NEUTRO"}
    THEN [tipo |-> "SHORT", fuerza |-> ss]
    ELSE [tipo |-> "NONE", fuerza |-> 0]

Senal(sl, ss, tendencia) ==
    IF sl >= FUERZA_MIN_LONG /\ sl > ss /\ tendencia \in {"ALCISTA", "NEUTRO"}
    THEN [tipo |-> "LONG", fuerza |-> sl]
    ELSE IF ss >= FUERZA_MIN_SHORT /\ ss > sl /\ tendencia \in {"BAJISTA", "NEUTRO"}
    THEN [tipo |-> "SHORT", fuerza |-> ss]
    ELSE [tipo |-> "NONE", fuerza |-> 0]

(***************************************************************************)
(* enviar_latido_si_procede: the clock, the date formats and the marker    *)
(***************************************************************************)
Digitos == <<"0", "1", "2", "3", "4", "5", "6", "7", "8", "9">>

\* str(n) for n >= 0
RECURSIVE Str(_)
Str(n) == IF n < 10 THEN <<Digitos[n + 1]>> ELSE Str(n \div 10) \o <<Digitos[(n % 10) + 1]>>

\* %Y, %m, %d: zero-padded to a width
RECURSIVE Relleno(_, _)
Relleno(n, ancho) == IF Len(Str(n)) >= ancho THEN Str(n) ELSE <<"0">> \o Relleno(n, ancho - 1)

\* The calendar date of the k-th modelled day.
Fecha(k) == [anio |-> 2024, mes |-> 1, dia |-> 7 + k]

\* now.strftime("%Y-%m-%d")
HoyStr(now) ==
    LET f == Fecha(now.dia)
    IN  Str(f.anio) \o <<"-">> \o Relleno(f.mes, 2) \o <<"-">> \o Relleno(f.dia, 2)

\* f"{today_str}-{now.hour}"
Marca(now) == HoyStr(now) \o <<"-">> \o Str(now.hora)

\* Python's `sub in s` on strings
Contiene(s, sub) ==
    \E i \in 0..(Len(s) - Len(sub)) : SubSeq(s, i + 1, i + Len(sub)) = sub

\* Variant: looks for a marker that also carries the minute.
YaEnviadoConMinuto(archivo, now) ==
    archivo.existe /\ Contiene(archivo.texto, Marca(now) \o <<":">> \o Str(now.minuto))

\* last_beat_file.exists() and the marker of this hour is in its text
YaEnviado(archivo, now) == archivo.existe /\ Contiene(archivo.texto, Marca(now))

\* now.hour in horas_de_latido and now.minute < 15
EsHoraDeLatido(now) == now.hora \in horas_de_latido /\ now.minuto < MINUTOS_LATIDO

HorasReloj == {7, 8, 9, 20}

MinutosReloj == {0, 14, 15}

Relojes == [dia : 1..NumDias, hora : HorasReloj, minuto : MinutosReloj]

\* The clock order: a is not later than b.
NoPosterior(a, b) ==
    \/ a.dia < b.dia
    \/ a.dia = b.dia /\ a.hora < b.hora
    \/ a.dia = b.dia /\ a.hora = b.hora /\ a.minuto =< b.minuto

SinArchivo == [existe |-> FALSE, texto |-> <<>>]

(***************************************************************************)
(* What the exchange and the indicator library answer                      *)
(***************************************************************************)
EntradaBase ==
    [f15 |-> "ok", f4h |-> "ok", n15 |-> 300, n4h |-> 250, calc |-> "ok",
     df_4h |-> <<>>, filas |-> 97, ema20 |-> 1001, close |-> 1002, adx |-> 24,
     macd |-> <<0, 0, 0>>, rsi |-> <<50, 50, 50>>, volume |-> 150,
     final |-> <<1000, 1000>>, vieja |-> <<1000, 1000>>]

Fila4hAlcista == [ema20 |-> 2, ema200 |-> 1]

Fila4hBajista == [ema20 |-> 1, ema200 |-> 2]

Fila4hPlana == [ema20 |-> 1, ema200 |-> 1]

Filas4h == {Fila4hAlcista, Fila4hBajista, Fila4hPlana}

\* 4h frames of one row, and the empty frame
Marcos4hCortos == {<<>>} \cup {<<f>> : f \in Filas4h}

\* 4h frames of up to two rows
Marcos4h == Marcos4hCortos \cup {<<f, g>> : f \in Filas4h, g \in Filas4h}

ResultadosFetch == {"ok", "NetworkError", "ExchangeError"}

\* The final row and the window: <<rows, final high/low, high/low 96 rows before the final>>
FormasDeVentana ==
    {<<97, <<1000, 1000>>, <<1000, 1000>>>>, <<97, <<1100, 1000>>, <<1000, 1000>>>>,
     <<97, <<1000, 900>>, <<1000, 1000>>>>, <<97, <<1000, 1000>>, <<1200, 800>>>>,
     <<50, <<1000, 1000>>, <<1000, 1000>>>>, <<50, <<1100, 900>>, <<1000, 1000>>>>}

\* Frames that exercise every condition, the window and the trend
EntradasCondiciones ==
    {[EntradaBase EXCEPT !.ema20 = e20, !.close = c, !.adx = a,
                         !.macd = <<mc[1], mp[1], mp[2]>>,
                         !.rsi = <<rc[1], rp[1], rp[2]>>,
                         !.volume = v, !.filas = w[1], !.final = w[2], !.vieja = w[3],
                         !.df_4h = t] :
        e20 \in {999, 1001}, c \in {980, 998, 1002, 1020}, a \in {23, 24},
        mc \in {<<-1>>, <<0>>, <<1>>}, mp \in {<<-1, -1>>, <<-1, 1>>, <<1, -1>>, <<1, 1>>},
        rc \in {<<49>>, <<50>>, <<51>>}, rp \in {<<49, 49>>, <<51, 51>>},
        v \in {149, 150}, w \in FormasDeVentana, t \in {<<f>> : f \in Filas4h}}

\* A few frames by score (long, short): (9,5), (5,9), (7,7), (7,8), (8,7)
EntradasPorPuntuacion ==
    {[EntradaBase EXCEPT !.ema20 = x[1], !.close = x[2], !.macd = x[3], !.rsi = x[4]] :
        x \in {<<1001, 1002, <<1, -1, -1>>, <<50, 50, 50>>>>,
               <<999, 998, <<-1, 1, 1>>, <<50, 50, 50>>>>,
               <<1001, 1002, <<-1, 1, 1>>, <<50, 50, 50>>>>,
               <<1001, 1002, <<-1, 1, 1>>, <<49, 51, 51>>>>,
               <<999, 998, <<1, -1, -1>>, <<51, 49, 49>>>>}}

\* Short fetches, failing fetches, a failing computation, few rows left
EntradasFallos ==
    {[e EXCEPT !.f15 = a, !.f4h = b, !.n15 = n, !.n4h = h, !.calc = c,
               !.filas = f, !.df_4h = t] :
        e \in {[EntradaBase EXCEPT !.macd = <<1, -1, -1>>, !.rsi = <<51, 49, 49>>]},
        a \in ResultadosFetch, b \in ResultadosFetch,
        n \in {199, 200, 300}, h \in {209, 210, 250}, c \in {"ok", "ValueError"},
        f \in {49, 50}, t \in Marcos4hCortos}

\* Trend frames of up to two rows against the frames by score
EntradasTendencia ==
    {[e EXCEPT !.df_4h = t] : e \in EntradasPorPuntuacion, t \in Marcos4h}

Entradas == EntradasCondiciones \cup EntradasFallos \cup EntradasTendencia

\* What one cycle of main draws from, per attempt
EntradasCiclo ==
    {[e EXCEPT !.df_4h = t] : e \in EntradasPorPuntuacion, t \in {<<f>> : f \in Filas4h}}
    \cup {[EntradaBase EXCEPT !.f15 = "NetworkError"], [EntradaBase EXCEPT !.f15 = "ExchangeError"],
          [EntradaBase EXCEPT !.f4h = "NetworkError"], [EntradaBase EXCEPT !.calc = "ValueError"],
          [EntradaBase EXCEPT !.n15 = 199], [EntradaBase EXCEPT !.n4h = 209],
          [EntradaBase EXCEPT !.filas = 49]}

\* The exception classes `except Exception` catches
SubclasesDeException == {"NetworkError", "ExchangeError", "RequestException", "ValueError"}

(***************************************************************************)
(* State                                                                   *)
(***************************************************************************)
VARIABLES
    pc,                 \* where the run is
    idx,                \* position of the for loop of main in PARES_A_ANALIZAR
    llamada,            \* the active call through retry's wrapped: fn, m, d, where to return
    salida,             \* how the wrapped function's last attempt ended
    exc,                \* the exception raised inside analizar_mercado's try block
    entrada,            \* what the exchange and the indicators answer to this attempt
    tendencia_general,  \* analizar_mercado's locals
    cond_long,
    cond_short,
    score_long,
    score_short,
    analisis,           \* main: what analizar_mercado(symbol) returned
    resultados,         \* main: the summary dict, in insertion order
    now,                \* datetime.now() of this run
    last_beat,          \* last_beat.txt
    configurado,        \* TELEGRAM_TOKEN and TELEGRAM_CHAT_ID are set
    enviados,           \* history: every message handed to enviar_telegram
    posts,              \* history: the results of requests.post within the latest call of this iteration
    latidos,            \* history: the clock of every heartbeat handed to enviar_telegram
    descargas,          \* history: how the fetches ended, per attempt on the current symbol
    analizados,         \* history: the symbols analizar_mercado was called with
    pasos               \* history: the steps of analizar_mercado the current attempt ran

vars == <<pc, idx, llamada, salida, exc, entrada, tendencia_general, cond_long, cond_short,
          score_long, score_short, analisis, resultados, now, last_beat, configurado,
          enviados, posts, latidos, descargas, analizados, pasos>>

locales == <<tendencia_general, cond_long, cond_short, score_long, score_short>>

historia == <<enviados, posts, latidos, descargas, analizados, pasos>>

SinLlamada == [fn |-> "", m |-> 0, d |-> 0, ret |-> ""]

SinSalida == [clase |-> "", exc |-> "", valor |-> ResultadoNulo]

Retorna(v) == [clase |-> "return", exc |-> "", valor |-> v]

Lanza(x) == [clase |-> "raise", exc |-> x, valor |-> ResultadoNulo]

\* Entering retry's wrapped: m, d = tries, delay
Llamar(fn, ret) == [fn |-> fn, m |-> tries, d |-> delay, ret |-> ret]

\* resultados[par] = {...} on a dict kept as the sequence of its items
DictSet(dict, par, valor) ==
    IF \E k \in 1..Len(dict) : dict[k].par = par
    THEN [k \in 1..Len(dict) |-> IF dict[k].par = par THEN valor ELSE dict[k]]
    ELSE Append(dict, valor)

Mensaje(clase, symbol, fuerza) == [clase |-> clase, symbol |-> symbol, fuerza |-> fuerza]

\* Variant: reports every LONG alert as confirmed.
MensajeLongSinTipo(a, symbol) == Mensaje("LONG_CONFIRMADA", symbol, a.score_long)

\* main: which LONG message the alert logic builds
MensajeLong(a, symbol) ==
    IF a.tipo = "LONG" THEN Mensaje("LONG_CONFIRMADA", symbol, a.score_long)
    ELSE Mensaje("LONG_POTENCIAL", symbol, a.score_long)

\* main: which SHORT message the alert logic builds
MensajeShort(a, symbol) ==
    IF a.tipo = "SHORT" THEN Mensaje("SHORT_CONFIRMADA", symbol, a.score_short)
    ELSE Mensaje("SHORT_POTENCIAL", symbol, a.score_short)

\* main: the guards of the two alert blocks
AlertaLongProcede(a) == a.score_long >= FUERZA_MINIMA_ALERTA

AlertaShortProcede(a) == a.score_short >= FUERZA_MINIMA_ALERTA

\* Variant: returns early only when both fetches are short.
DatosInsuficientesAmbos(e) == e.n15 < MIN_VELAS_15M /\ e.n4h < MIN_VELAS_4H

\* analizar_mercado: the early return on short fetches
DatosInsuficientes(e) == e.n15 < MIN_VELAS_15M \/ e.n4h < MIN_VELAS_4H

\* analizar_mercado: the early return on a short frame
FilasInsuficientes(df) == Len(df) < MIN_FILAS_15M

\* Variant: the handler catches the exchange errors only.
PorExcepcionSoloRed(x) == IF x \in ExcsMercado THEN Retorna(ResultadoNulo) ELSE Lanza(x)

\* analizar_mercado: except Exception as e: ... return the all-zero result
PorExcepcion(x) == IF x \in SubclasesDeException THEN Retorna(ResultadoNulo) ELSE Lanza(x)

\* retry's wrapped: the attempt raised one of excs and tries are left
Reintenta(ll, sal) ==
    /\ sal.clase = "raise"
    /\ sal.exc \in (IF ll.fn = "analizar_mercado" THEN ExcsMercado ELSE ExcsTelegram)
    /\ ll.m > 1

(***************************************************************************)
(* Actions                                                                 *)
(***************************************************************************)
\* enviar_latido_si_procede, up to the call of enviar_telegram
Latido ==
    /\ pc = "latido"
    /\ IF EsHoraDeLatido(now) /\ ~YaEnviado(last_beat, now)
       THEN /\ llamada' = Llamar("enviar_telegram", "marca_latido")
            /\ enviados' = Append(enviados, Mensaje("LATIDO", <<>>, 0))
            /\ latidos' = Append(latidos, now)
            /\ posts' = <<>>
            /\ pc' = "enviar"
       ELSE /\ pc' = "bucle"
            /\ UNCHANGED <<llamada, enviados, latidos, posts>>
    /\ UNCHANGED <<idx, salida, exc, entrada, locales, analisis, resultados, now,
                   last_beat, configurado, descargas, analizados, pasos>>

\* enviar_latido_si_procede: last_beat_file.write_text(...)
MarcaLatido ==
    /\ pc = "marca_latido"
    /\ last_beat' = [existe |-> TRUE, texto |-> Marca(now)]
    /\ pc' = "bucle"
    /\ UNCHANGED <<idx, llamada, salida, exc, entrada, locales, analisis, resultados, now,
                   configurado, historia>>

\* enviar_telegram: one run of its body
Enviar ==
    /\ pc = "enviar"
    /\ IF ~configurado
       THEN posts' = posts
       ELSE \E r \in {"ok", "RequestException"} : posts' = Append(posts, r)
    /\ salida' = Retorna(ResultadoNulo)
    /\ pc' = "wrapped"
    /\ UNCHANGED <<idx, llamada, exc, entrada, locales, analisis, resultados, now, last_beat,
                   configurado, enviados, latidos, descargas, analizados, pasos>>

\* retry's wrapped, once the attempt has ended: retry, propagate or return.
\* The frame of the attempt (its locals) is gone in every case.
Wrapped ==
    /\ pc = "wrapped"
    /\ IF Reintenta(llamada, salida)
       THEN /\ llamada' = [llamada EXCEPT !.m = @ - 1, !.d = @ * backoff]
            /\ pc' = IF llamada.fn = "analizar_mercado" THEN "descargar" ELSE "enviar"
            /\ \E e \in (IF llamada.fn = "analizar_mercado" THEN EntradasCiclo ELSE {entrada}) :
                    entrada' = e
            /\ salida' = SinSalida
            /\ UNCHANGED analisis
       ELSE IF salida.clase = "raise"
       THEN /\ pc' = "critico"
            /\ UNCHANGED <<llamada, salida, entrada, analisis>>
       ELSE /\ pc' = llamada.ret
            /\ analisis' = IF llamada.fn = "analizar_mercado" THEN salida.valor ELSE analisis
            /\ llamada' = SinLlamada
            /\ salida' = SinSalida
            /\ UNCHANGED entrada
    /\ tendencia_general' = ""
    /\ cond_long' = <<>>
    /\ cond_short' = <<>>
    /\ score_long' = 0
    /\ score_short' = 0
    /\ UNCHANGED <<idx, exc, resultados, now, last_beat, configurado, historia>>

\* main: the head of the for loop and the call of analizar_mercado
Bucle ==
    /\ pc = "bucle"
    /\ IF idx =< Len(PARES_A_ANALIZAR)
       THEN /\ llamada' = Llamar("analizar_mercado", "registrar")
            /\ \E e \in EntradasCiclo : entrada' = e
            /\ descargas' = <<>>
            /\ pasos' = <<>>
            /\ analizados' = Append(analizados, PARES_A_ANALIZAR[idx])
            /\ pc' = "descargar"
       ELSE /\ pc' = "resumen"
            /\ UNCHANGED <<llamada, entrada, descargas, pasos, analizados>>
    /\ UNCHANGED <<idx, salida, exc, locales, analisis, resultados, now, last_beat,
                   configurado, enviados, posts, latidos>>

\* analizar_mercado: the two fetches and the length check
Descargar ==
    /\ pc = "descargar"
    /\ descargas' = Append(descargas, IF entrada.f15 # "ok" THEN entrada.f15 ELSE entrada.f4h)
    /\ pasos' = <<"descarga">>
    /\ tendencia_general' = ""
    /\ cond_long' = <<>>
    /\ cond_short' = <<>>
    /\ score_long' = 0
    /\ score_short' = 0
    /\ IF entrada.f15 # "ok"
       THEN exc' = entrada.f15 /\ pc' = "except" /\ UNCHANGED salida
       ELSE IF entrada.f4h # "ok"
       THEN exc' = entrada.f4h /\ pc' = "except" /\ UNCHANGED salida
       ELSE IF DatosInsuficientes(entrada)
       THEN salida' = Retorna(ResultadoNulo) /\ pc' = "wrapped" /\ UNCHANGED exc
       ELSE pc' = "evaluar" /\ UNCHANGED <<salida, exc>>
    /\ UNCHANGED <<idx, llamada, entrada, analisis, resultados, now, last_beat, configurado,
                   enviados, posts, latidos, analizados>>

\* analizar_mercado: indicators, trend, the row check and the conditions
Evaluar ==
    /\ pc = "evaluar"
    /\ IF entrada.calc # "ok"
       THEN /\ exc' = entrada.calc
            /\ pc' = "except"
            /\ pasos' = Append(pasos, "indicadores")
            /\ UNCHANGED <<salida, tendencia_general, cond_long, cond_short>>
       ELSE /\ tendencia_general' = Tendencia(entrada.df_4h)
            /\ IF FilasInsuficientes(df_15m(entrada))
               THEN /\ salida' = Retorna(ResultadoNulo)
                    /\ pc' = "wrapped"
                    /\ pasos' = pasos \o <<"indicadores", "tendencia">>
                    /\ UNCHANGED <<exc, cond_long, cond_short>>
               ELSE /\ cond_long' = CondLong(df_15m(entrada))
                    /\ cond_short' = CondShort(df_15m(entrada))
                    /\ pc' = "puntuar"
                    /\ pasos' = pasos \o <<"indicadores", "tendencia", "condiciones">>
                    /\ UNCHANGED <<exc, salida>>
    /\ UNCHANGED <<idx, llamada, entrada, score_long, score_short, analisis, resultados, now,
                   last_beat, configurado, enviados, posts, latidos, descargas, analizados>>

\* analizar_mercado: the two scores
Puntuar ==
    /\ pc = "puntuar"
    /\ score_long' = Puntuacion(cond_long)
    /\ score_short' = Puntuacion(cond_short)
    /\ pasos' = Append(pasos, "puntuacion")
    /\ pc' = "resolver"
    /\ UNCHANGED <<idx, llamada, salida, exc, entrada, tendencia_general, cond_long,
                   cond_short, analisis, resultados, now, last_beat, configurado, enviados,
                   posts, latidos, descargas, analizados>>

\* analizar_mercado: the final signal and the return
Resolver ==
    /\ pc = "resolver"
    /\ LET s == Senal(score_long, score_short, tendencia_general)
       IN  salida' = Retorna([score_long |-> score_long, score_short |-> score_short,
                              tipo |-> s.tipo, fuerza |-> s.fuerza])
    /\ pasos' = Append(pasos, "senal")
    /\ pc' = "wrapped"
    /\ UNCHANGED <<idx, llamada, exc, entrada, locales, analisis, resultados, now, last_beat,
                   configurado, enviados, posts, latidos, descargas, analizados>>

\* analizar_mercado: except Exception
Except ==
    /\ pc = "except"
    /\ salida' = PorExcepcion(exc)
    /\ exc' = ""
    /\ pc' = "wrapped"
    /\ UNCHANGED <<idx, llamada, entrada, locales, analisis, resultados, now, last_beat,
                   configurado, historia>>

\* main: resultados[par] = {"long": score_long, "short": score_short}
Registrar ==
    /\ pc = "registrar"
    /\ LET par == ParDe(PARES_A_ANALIZAR[idx])
       IN  resultados' = DictSet(resultados, par,
                                 [par |-> par, long |-> analisis.score_long,
                                  short |-> analisis.score_short])
    /\ pc' = "alerta_long"
    /\ UNCHANGED <<idx, llamada, salida, exc, entrada, locales, analisis, now, last_beat,
                   configurado, historia>>

\* main: the LONG alert block
AlertaLong ==
    /\ pc = "alerta_long"
    /\ IF AlertaLongProcede(analisis)
       THEN /\ llamada' = Llamar("enviar_telegram", "alerta_short")
            /\ enviados' = Append(enviados, MensajeLong(analisis, PARES_A_ANALIZAR[idx]))
            /\ posts' = <<>>
            /\ pc' = "enviar"
       ELSE /\ pc' = "alerta_short"
            /\ UNCHANGED <<llamada, enviados, posts>>
    /\ UNCHANGED <<idx, salida, exc, entrada, locales, analisis, resultados, now, last_beat,
                   configurado, latidos, descargas, analizados, pasos>>

\* main: the SHORT alert block
AlertaShort ==
    /\ pc = "alerta_short"
    /\ IF AlertaShortProcede(analisis)
       THEN /\ llamada' = Llamar("enviar_telegram", "siguiente")
            /\ enviados' = Append(enviados, MensajeShort(analisis, PARES_A_ANALIZAR[idx]))
            /\ posts' = <<>>
            /\ pc' = "enviar"
       ELSE /\ pc' = "siguiente"
            /\ UNCHANGED <<llamada, enviados, posts>>
    /\ UNCHANGED <<idx, salida, exc, entrada, locales, analisis, resultados, now, last_beat,
                   configurado, latidos, descargas, analizados, pasos>>

\* main: the for loop moves to the next symbol
Siguiente ==
    /\ pc = "siguiente"
    /\ idx' = idx + 1
    /\ posts' = <<>>
    /\ pc' = "bucle"
    /\ UNCHANGED <<llamada, salida, exc, entrada, locales, analisis, resultados, now,
                   last_beat, configurado, enviados, latidos, descargas, analizados, pasos>>

\* main: the summary table
Resumen ==
    /\ pc = "resumen"
    /\ pc' = "fin"
    /\ UNCHANGED <<idx, llamada, salida, exc, entrada, locales, analisis, resultados, now,
                   last_beat, configurado, historia>>

\* The script is started again (cron), at the same clock or later.
NuevaEjecucion ==
    /\ pc = "bucle"
    /\ \E t \in Relojes : NoPosterior(now, t) /\ now' = t
    /\ pc' = "latido"
    /\ UNCHANGED <<idx, llamada, salida, exc, entrada, locales, analisis, resultados,
                   last_beat, configurado, historia>>

(***************************************************************************)
(* Specifications                                                          *)
(***************************************************************************)
InitComun ==
    /\ idx = 1
    /\ salida = SinSalida
    /\ exc = ""
    /\ analisis = ResultadoNulo
    /\ resultados = <<>>
    /\ enviados = <<>>
    /\ posts = <<>>
    /\ latidos = <<>>
    /\ descargas = <<>>
    /\ analizados = <<>>
    /\ score_long = 0
    /\ score_short = 0

\* One run of main: the script starts within a heartbeat slot, served or not yet.
Init ==
    /\ InitComun
    /\ pc = "latido"
    /\ llamada = SinLlamada
    /\ entrada = EntradaBase
    /\ pasos = <<>>
    /\ tendencia_general = ""
    /\ cond_long = <<>>
    /\ cond_short = <<>>
    /\ now = [dia |-> 1, hora |-> 8, minuto |-> 14]
    /\ last_beat \in {SinArchivo, [existe |-> TRUE, texto |-> Marca([dia |-> 1, hora |-> 8])]}
    /\ configurado \in BOOLEAN

Next ==
    \/ Latido \/ MarcaLatido \/ Enviar \/ Wrapped \/ Bucle \/ Descargar \/ Evaluar
    \/ Puntuar \/ Resolver \/ Except \/ Registrar \/ AlertaLong \/ AlertaShort
    \/ Siguiente \/ Resumen

Spec == Init /\ [][Next]_vars

\* One call of analizar_mercado on every modelled answer of the exchange.
InitAnalisis ==
    /\ InitComun
    /\ pc = "descargar"
    /\ llamada = Llamar("analizar_mercado", "registrar")
    /\ entrada \in Entradas
    /\ pasos = <<>>
    /\ tendencia_general = ""
    /\ cond_long = <<>>
    /\ cond_short = <<>>
    /\ now = [dia |-> 1, hora |-> 7, minuto |-> 0]
    /\ last_beat = SinArchivo
    /\ configurado = TRUE

NextAnalisis == Descargar \/ Evaluar \/ Puntuar \/ Resolver \/ Except \/ Wrapped

SpecAnalisis == InitAnalisis /\ [][NextAnalisis]_vars

\* The scorer and the resolver on every pair of condition vectors and every trend.
Vectores == [1..6 -> BOOLEAN]

InitPuntos ==
    /\ InitComun
    /\ pc = "puntuar"
    /\ llamada = Llamar("analizar_mercado", "registrar")
    /\ entrada = EntradaBase
    /\ pasos = <<"descarga", "indicadores", "tendencia", "condiciones">>
    /\ tendencia_general \in {"ALCISTA", "BAJISTA", "NEUTRO"}
    /\ cond_long \in Vectores
    /\ cond_short \in Vectores
    /\ now = [dia |-> 1, hora |-> 7, minuto |-> 0]
    /\ last_beat = SinArchivo
    /\ configurado = TRUE

NextPuntos == Puntuar \/ Resolver \/ Wrapped

SpecPuntos == InitPuntos /\ [][NextPuntos]_vars

\* The heartbeat over repeated runs of the script with a persistent marker file.
InitLatido ==
    /\ InitComun
    /\ pc = "latido"
    /\ llamada = SinLlamada
    /\ entrada = EntradaBase
    /\ pasos = <<>>
    /\ tendencia_general = ""
    /\ cond_long = <<>>
    /\ cond_short = <<>>
    /\ now \in Relojes
    /\ last_beat = SinArchivo
    /\ configurado \in BOOLEAN

NextLatido == Latido \/ Enviar \/ Wrapped \/ MarcaLatido \/ NuevaEjecucion

SpecLatido == InitLatido /\ [][NextLatido]_vars

(***************************************************************************)
(* Properties                                                              *)
(***************************************************************************)
\* The value analizar_mercado's last attempt returned.
Devuelto == salida.valor

HaDevuelto == pc = "wrapped" /\ salida.clase = "return"

\* C1: the signal resolver returns one of LONG, SHORT, NONE; LONG only when
\* score_long > score_short, SHORT only when score_short > score_long, a tie
\* gives NONE; fuerza is score_long for LONG, score_short for SHORT, 0 for NONE.
C1_SenalUnica ==
    HaDevuelto =>
        /\ Devuelto.tipo \in {"LONG", "SHORT", "NONE"}
        /\ Devuelto.score_long = score_long /\ Devuelto.score_short = score_short
        /\ Devuelto.tipo = "LONG" => score_long > score_short /\ Devuelto.fuerza = score_long
        /\ Devuelto.tipo = "SHORT" => score_short > score_long /\ Devuelto.fuerza = score_short
        /\ Devuelto.tipo = "NONE" => Devuelto.fuerza = 0
        /\ score_long = score_short => Devuelto.tipo = "NONE"

\* C1 witness: both scores reach the threshold and the higher one wins.
C1_Witness ==
    /\ HaDevuelto
    /\ score_long = 7 /\ score_short = 8
    /\ Devuelto.tipo = "SHORT" /\ Devuelto.fuerza = 8

\* C8: each score is the sum of the weights 2, 2, 2, 1, 2, 1 at the positions
\* whose condition is true, an integer in 0..10; six true conditions give 10.
PesoSi(c, k, p) == IF c[k] THEN p ELSE 0

SumaPonderada(c) ==
    PesoSi(c, 1, 2) + PesoSi(c, 2, 2) + PesoSi(c, 3, 2) + PesoSi(c, 4, 1) + PesoSi(c, 5, 2)
    + PesoSi(c, 6, 1)

C8_SumaDePesos ==
    pc \in {"resolver", "wrapped"} /\ Len(cond_long) = 6 =>
        /\ score_long = SumaPonderada(cond_long)
        /\ score_short = SumaPonderada(cond_short)
        /\ score_long \in 0..10 /\ score_short \in 0..10
        /\ (\A k \in 1..6 : cond_long[k]) => score_long = 10

\* C8 witness: all six LONG conditions hold and the score is 10.
C8_Witness ==
    /\ pc = "wrapped"
    /\ Len(cond_long) = 6 /\ \A k \in 1..6 : cond_long[k]
    /\ score_long = 10

\* The most recent row of the 4h frame of this attempt.
Ultima4h == entrada.df_4h[Len(entrada.df_4h)]

Alcista4h == entrada.df_4h # <<>> /\ Ultima4h.ema20 > Ultima4h.ema200

Bajista4h == entrada.df_4h # <<>> /\ Ultima4h.ema20 < Ultima4h.ema200

\* C2: with the last 4h row bullish analizar_mercado never returns SHORT (a
\* score_short of 10 gives NONE with strength 0), with it bearish never LONG;
\* with the two equal or the frame empty neither direction is blocked.
C2_FiltroDeTendencia ==
    HaDevuelto =>
        /\ Alcista4h => Devuelto.tipo # "SHORT"
        /\ Alcista4h /\ Devuelto.score_short = 10 => Devuelto.tipo = "NONE" /\ Devuelto.fuerza = 0
        /\ Bajista4h => Devuelto.tipo # "LONG"
        /\ Bajista4h /\ Devuelto.score_long = 10 => Devuelto.tipo = "NONE" /\ Devuelto.fuerza = 0
        /\ ~Alcista4h /\ ~Bajista4h =>
            /\ Devuelto.score_long >= 7 /\ Devuelto.score_long > Devuelto.score_short
                    => Devuelto.tipo = "LONG"
            /\ Devuelto.score_short >= 7 /\ Devuelto.score_short > Devuelto.score_long
                    => Devuelto.tipo = "SHORT"
            /\ "tendencia" \in {pasos[k] : k \in 1..Len(pasos)} => tendencia_general = "NEUTRO"

\* C2 witness: a bullish 4h row, every SHORT condition true, and no signal.
C2_Witness ==
    /\ HaDevuelto
    /\ Alcista4h
    /\ Devuelto.score_short = 10
    /\ Devuelto.tipo = "NONE" /\ Devuelto.fuerza = 0

FetchesOk == entrada.f15 = "ok" /\ entrada.f4h = "ok"

PasosHechos == {pasos[k] : k \in 1..Len(pasos)}

\* C5: fewer than 200 primary candles or fewer than 210 trend candles give the
\* all-zero NONE result with no indicator, condition or scoring step run; so do
\* fewer than 50 primary rows left after dropna.
C5_DatosInsuficientes ==
    HaDevuelto /\ FetchesOk =>
        /\ entrada.n15 < 200 \/ entrada.n4h < 210 =>
            /\ Devuelto = [score_long |-> 0, score_short |-> 0, tipo |-> "NONE", fuerza |-> 0]
            /\ PasosHechos = {"descarga"}
        /\ entrada.n15 >= 200 /\ entrada.n4h >= 210 /\ entrada.calc = "ok" /\ entrada.filas < 50 =>
            /\ Devuelto = [score_long |-> 0, score_short |-> 0, tipo |-> "NONE", fuerza |-> 0]
            /\ PasosHechos \cap {"condiciones", "puntuacion", "senal"} = {}

\* C5 witness: enough primary candles, one trend candle short, nothing computed.
C5_Witness ==
    /\ HaDevuelto /\ FetchesOk
    /\ entrada.n15 = 200 /\ entrada.n4h = 209
    /\ Devuelto.tipo = "NONE"
    /\ PasosHechos = {"descarga"}

\* The rows of the 96-candle window that ends at the closed candle.
AltosHastaCerrada(df) ==
    {df[k].high : k \in {j \in 1..(Len(df) - 1) : j >= Len(df) - 96}}

BajosHastaCerrada(df) ==
    {df[k].low : k \in {j \in 1..(Len(df) - 1) : j >= Len(df) - 96}}

\* C6: the breakout conditions compare the closed candle's close with the
\* extremum of the 96 rows ending at the closed candle, so the final row's
\* high and low never influence them.
C6_VentanaHastaCerrada ==
    pc = "puntuar" =>
        LET df == df_15m(entrada)
            cerrada == df[Len(df) - 1]
        IN  /\ cond_long[6] = (\A h \in AltosHastaCerrada(df) : 100 * cerrada.close >= 99 * h)
            /\ cond_short[6] = (\A l \in BajosHastaCerrada(df) : 100 * cerrada.close =< 101 * l)

\* C3: a transient error of the candle fetch is retried: the fetch is attempted
\* again after a failed attempt, and the all-zero result comes only after the
\* last of the 3 attempts has failed too.
C3_FetchReintentado ==
    pc = "registrar" /\ descargas[1] \in {"NetworkError", "ExchangeError"} =>
        /\ Len(descargas) >= 2
        /\ analisis.tipo = "NONE" /\ descargas[Len(descargas)] # "ok" => Len(descargas) = 3

\* C7: a send that fails with a RequestException is attempted again, up to 3
\* attempts, and no exception reaches the caller.
C7_EnvioReintentado ==
    /\ pc # "critico"
    /\ pc \notin {"enviar", "wrapped"} /\ posts # <<>> /\ posts[1] = "RequestException" =>
        /\ Len(posts) >= 2
        /\ (\A k \in 1..Len(posts) : posts[k] = "RequestException") => Len(posts) = 3

EnAlertas == pc \in {"registrar", "alerta_long", "alerta_short", "siguiente"}

\* What analizar_mercado returns on one answer of the exchange, taken alone.
ResultadoSolo(e) ==
    IF e.f15 # "ok" \/ e.f4h # "ok" THEN ResultadoNulo
    ELSE IF e.n15 < 200 \/ e.n4h < 210 THEN ResultadoNulo
    ELSE IF e.calc # "ok" THEN ResultadoNulo
    ELSE IF e.filas < 50 THEN ResultadoNulo
    ELSE LET sl == SumaPonderada(CondLong(df_15m(e)))
             ss == SumaPonderada(CondShort(df_15m(e)))
             s  == Senal(sl, ss, Tendencia(e.df_4h))
         IN  [score_long |-> sl, score_short |-> ss, tipo |-> s.tipo, fuerza |-> s.fuerza]

\* C4: a failing analysis gives the all-zero NONE result, no exception leaves
\* analizar_mercado, main analyses every symbol once in list order with one
\* summary entry each, and a symbol's result depends on its own data only.
C4_FallosAislados ==
    /\ pc # "critico" /\ salida.clase # "raise"
    /\ analizados = SubSeq(PARES_A_ANALIZAR, 1, Len(analizados))
    /\ Len(analizados) \in {idx - 1, idx}
    /\ Len(resultados) \in {idx - 1, idx}
    /\ \A k \in 1..Len(resultados) : resultados[k].par = PARES_A_ANALIZAR[k][1]
    /\ EnAlertas =>
        /\ Len(analizados) = idx
        /\ entrada.f15 # "ok" \/ entrada.f4h # "ok" \/ entrada.calc # "ok"
                => analisis = [score_long |-> 0, score_short |-> 0, tipo |-> "NONE", fuerza |-> 0]
        /\ analisis = ResultadoSolo(entrada)
        /\ pc # "registrar" =>
            /\ Len(resultados) = idx
            /\ resultados[idx].long = analisis.score_long
            /\ resultados[idx].short = analisis.score_short
    /\ pc \in {"resumen", "fin"} =>
        /\ analizados = PARES_A_ANALIZAR
        /\ Len(resultados) = Len(PARES_A_ANALIZAR)

\* C4 witness: the first symbol scored 9 to 5, the last symbol's fetch failed,
\* and the cycle ended with an entry for each.
C4_Witness ==
    /\ pc = "fin"
    /\ Len(resultados) = Len(PARES_A_ANALIZAR)
    /\ entrada.f15 = "NetworkError"
    /\ resultados[Len(resultados)].long = 0 /\ resultados[Len(resultados)].short = 0
    /\ resultados[1].long = 9 /\ resultados[1].short = 5

\* The messages of the clase handed to enviar_telegram for the current symbol.
Avisos(clase) ==
    {k \in 1..Len(enviados) :
        enviados[k].clase = clase /\ enviados[k].symbol = PARES_A_ANALIZAR[idx]}

\* C9: per symbol, a confirmed LONG (SHORT) message is sent iff the type is
\* LONG (SHORT), so at most one confirmed message and none for NONE; a score
\* >= 7 that was not selected gives a "potential" message, a score below 7 none.
C9_Alertas ==
    pc = "siguiente" =>
        /\ Cardinality(Avisos("LONG_CONFIRMADA")) = (IF analisis.tipo = "LONG" THEN 1 ELSE 0)
        /\ Cardinality(Avisos("SHORT_CONFIRMADA")) = (IF analisis.tipo = "SHORT" THEN 1 ELSE 0)
        /\ Cardinality(Avisos("LONG_CONFIRMADA")) + Cardinality(Avisos("SHORT_CONFIRMADA")) =< 1
        /\ Cardinality(Avisos("LONG_POTENCIAL"))
             = (IF analisis.score_long >= 7 /\ analisis.tipo # "LONG" THEN 1 ELSE 0)
        /\ Cardinality(Avisos("SHORT_POTENCIAL"))
             = (IF analisis.score_short >= 7 /\ analisis.tipo # "SHORT" THEN 1 ELSE 0)
        /\ analisis.score_long < 7
             => Avisos("LONG_CONFIRMADA") \cup Avisos("LONG_POTENCIAL") = {}
        /\ analisis.score_short < 7
             => Avisos("SHORT_CONFIRMADA") \cup Avisos("SHORT_POTENCIAL") = {}

\* C9 witness: SHORT wins 8 to 7; SHORT is confirmed and LONG reported as discarded.
C9_Witness ==
    /\ pc = "siguiente"
    /\ analisis.tipo = "SHORT" /\ analisis.score_long = 7 /\ analisis.score_short = 8
    /\ Avisos("SHORT_CONFIRMADA") # {} /\ Avisos("LONG_POTENCIAL") # {}

\* The text the marker holds for the slot of a clock value.
TextoDeFranja(t) ==
    <<"2", "0", "2", "4", "-", "0", "1", "-">> \o Relleno(7 + t.dia, 2) \o <<"-">> \o Str(t.hora)

\* C10: over runs with a non-decreasing clock the heartbeat is sent at most once
\* per (day, heartbeat hour), only in the first 15 minutes of hour 8 or 20, and
\* the slot's marker is written only after the slot's heartbeat was sent.
C10_LatidoUnico ==
    /\ \A i, j \in 1..Len(latidos) :
         i # j => latidos[i].dia # latidos[j].dia \/ latidos[i].hora # latidos[j].hora
    /\ \A i \in 1..Len(latidos) : latidos[i].hora \in {8, 20} /\ latidos[i].minuto < 15
    /\ last_beat.existe =>
         \E i \in 1..Len(latidos) : last_beat.texto = TextoDeFranja(latidos[i])

\* C10 witness: a later run within a slot already served found the marker and sent nothing.
C10_Witness ==
    /\ pc = "bucle"
    /\ Len(latidos) = 2
    /\ latidos[2].hora = 20 /\ latidos[2].minuto = 0
    /\ now.dia = latidos[2].dia /\ now.hora = 20 /\ now.minuto = 14
    /\ last_beat.texto = TextoDeFranja(now)

=============================================================================
